---------------------------- MODULE Spec2Model ----------------------------
(***************************************************************************)
(* Model of the template-parameter editing bot (update_template.py and     *)
(* LogfileLogger.py).                                                      *)
(*                                                                         *)
(* A template is the ordered list of its parameters, each a record         *)
(* [name, value].  Parameter names, page titles, statuses and notes are    *)
(* strings; parameter values are texts: sequences of one-character         *)
(* strings, so that str.strip(), re.search() and int() are computed on     *)
(* them.  A log file is the sequence of the CSV rows written to it, every  *)
(* cell as csv.writer serialises it.                                       *)
(***************************************************************************)
EXTENDS Integers, Sequences, FiniteSets, TLC

(***************************************************************************)
(* Bounds of the model.                                                    *)
(***************************************************************************)
\* longest parameter list of a page handed to update_template
MaxParams == 3

\* most pages the page iterator supplies to a run
MaxPages == 2

\* most rows of the input file
MaxFileRows == 2

\* most calls made on a loader
MaxLoaderCalls == 3

(***************************************************************************)
(* Python values.                                                          *)
(***************************************************************************)
\* None passed for a parameter name (before / after)
None == "None"
\* None passed where a text is expected (value_before of a created param)
NoneText == <<"None">>
\* no exception is propagating
NoExc == "none"

(***************************************************************************)
(* Texts: str.strip(), re.search(), int(), str().                          *)
(***************************************************************************)
DigitChars == <<"0", "1", "2", "3", "4", "5", "6", "7", "8", "9">>

Digits == {DigitChars[i] : i \in 1..10}

Whitespace == {" ", "\n"}

SetMin(S) == CHOOSE m \in S : \A k \in S : m <= k

SetMax(S) == CHOOSE m \in S : \A k \in S : m >= k

\* str(param_value).strip()
Strip(s) ==
    LET keep == {i \in 1..Len(s) : s[i] \notin Whitespace}
    IN IF keep = {} THEN <<>> ELSE SubSeq(s, SetMin(keep), SetMax(keep))

\* length of the longest run of digits of s that starts at position i
DigitRun(s, i) ==
    SetMax({n \in 0..(IF i > Len(s) THEN 0 ELSE Len(s) - i + 1) :
                \A k \in i..(i + n - 1) : s[k] \in Digits})

\* re.search(r"\d+", s).group(0): the first maximal run of digits, NoneText
\* when re.search returns None
SearchDigits(s) ==
    LET starts == {i \in 1..Len(s) : s[i] \in Digits}
    IN IF starts = {} THEN NoneText
       ELSE LET i == SetMin(starts)
            IN SubSeq(s, i, i + DigitRun(s, i) - 1)

SuggestedLiteral == <<"S", "u", "g", "g", "e", "s", "t", "e", "d", ":", " ">>

\* end of the match of [+-]?([0-9]*[.])?[0-9]+ that starts at position p of s,
\* 0 when there is none (greedy, with the regex engine's backtracking)
NumberMatchEnd(s, p) ==
    LET q  == IF p <= Len(s) /\ s[p] \in {"+", "-"} THEN p + 1 ELSE p
        d1 == DigitRun(s, q)
        d2 == IF q + d1 <= Len(s) /\ s[q + d1] = "."
              THEN DigitRun(s, q + d1 + 1) ELSE 0
    IN IF d2 > 0 THEN q + d1 + d2
       ELSE IF d1 > 0 THEN q + d1 - 1
       ELSE 0

\* re.search(r"Suggested: ([+-]?([0-9]*[.])?[0-9]+)", s).group(1), NoneText
\* when re.search returns None
SearchSuggested(s) ==
    LET n == Len(SuggestedLiteral)
        hits == {p \in 1..Len(s) :
                    /\ p + n - 1 <= Len(s)
                    /\ SubSeq(s, p, p + n - 1) = SuggestedLiteral
                    /\ NumberMatchEnd(s, p + n) > 0}
    IN IF hits = {} THEN NoneText
       ELSE LET p == SetMin(hits)
            IN SubSeq(s, p + n, NumberMatchEnd(s, p + n))

DigitVal(c) == (CHOOSE i \in 1..10 : DigitChars[i] = c) - 1

RECURSIVE DigitsValue(_)
DigitsValue(s) ==
    IF s = <<>> THEN 0
    ELSE 10 * DigitsValue(SubSeq(s, 1, Len(s) - 1)) + DigitVal(s[Len(s)])

\* whether int(s) returns: an optional sign and then digits only
IntParses(s) ==
    LET body == IF s # <<>> /\ s[1] \in {"+", "-"} THEN Tail(s) ELSE s
    IN body # <<>> /\ \A i \in 1..Len(body) : body[i] \in Digits

\* int(s), where IntParses(s)
IntOf(s) ==
    IF s[1] = "-" THEN 0 - DigitsValue(Tail(s))
    ELSE IF s[1] = "+" THEN DigitsValue(Tail(s))
    ELSE DigitsValue(s)

RECURSIVE NatStr(_)
NatStr(n) ==
    IF n < 10 THEN <<DigitChars[n + 1]>>
    ELSE Append(NatStr(n \div 10), DigitChars[(n % 10) + 1])

\* str(n) of an int
StrOfInt(n) == IF n < 0 THEN <<"-">> \o NatStr(0 - n) ELSE NatStr(n)

(***************************************************************************)
(* mwparserfromhell Template, as update_template.py uses it.  A parameter  *)
(* name is the key template.has() and template.get() find it by; a value   *)
(* is kept as the page holds it (with its surrounding whitespace) or as it *)
(* was handed to template.add().                                           *)
(***************************************************************************)
\* template.has(name)
TemplateHas(params, name) == \E i \in 1..Len(params) : params[i].name = name

\* [i for i in range(len(template.params)) if template.params[i].name == name]
\* (positions counted from 1)
IndexMatches(params, name) == {i \in 1..Len(params) : params[i].name = name}

\* template.get(name).value
TemplateGet(params, name) == params[SetMin(IndexMatches(params, name))].value

InsertAt(params, i, entry) ==
    SubSeq(params, 1, i - 1) \o <<entry>> \o SubSeq(params, i, Len(params))

\* template.add that appends without looking for the name
TemplateAddAlwaysAppends(params, name, value, before) ==
    Append(params, [name |-> name, value |-> value])

\* template.add(name, value, before=before): an existing parameter keeps its
\* place and takes the value; a new one goes before `before`, or to the end
TemplateAdd(params, name, value, before) ==
    IF TemplateHas(params, name)
    THEN [i \in 1..Len(params) |->
            IF params[i].name = name THEN [name |-> name, value |-> value]
            ELSE params[i]]
    ELSE IF before # None
    THEN InsertAt(params, SetMin(IndexMatches(params, before)),
                  [name |-> name, value |-> value])
    ELSE Append(params, [name |-> name, value |-> value])

\* template.remove(name)
TemplateRemove(params, name) ==
    LET Keep(e) == e.name # name IN SelectSeq(params, Keep)

(***************************************************************************)
(* LogfileLogger.  csv.writer writes None as the empty cell and a bool as  *)
(* True / False.                                                           *)
(***************************************************************************)
CsvText(v) == IF v = NoneText THEN <<>> ELSE v

CsvBool(b) == IF b THEN "True" ELSE "False"

CsvNote(n) == IF n = None THEN "" ELSE n

\* file_log_paths of the logger the script constructs
LogPaths == {"logfile.csv", "logfiles/<timestamp>.csv"}

HeaderRow ==
    <<"page title", "param_name", "error status",
      <<"o", "l", "d", " ", "v", "a", "l", "u", "e">>,
      <<"n", "e", "w", " ", "v", "a", "l", "u", "e">>,
      "has value changed?", "notes">>

\* __write_row that returns after the first path of file_log_paths
WriteRowFirstPathOnly(files, row) ==
    [f \in DOMAIN files |->
        IF f = "logfile.csv" THEN Append(files[f], row) ELSE files[f]]

\* LogfileLogger.__write_row
WriteRow(files, row) == [f \in DOMAIN files |-> Append(files[f], row)]

\* LogfileLogger.__init__: every file emptied, then the header row written
NewLogfileLogger == WriteRow([f \in LogPaths |-> <<>>], HeaderRow)

Raise(env, e) == [env EXCEPT !.exc = e]

\* file_log_paths, in the order __write_row goes through it
file_log_paths == <<"logfile.csv", "logfiles/<timestamp>.csv">>

\* no write to a log file fails
NoFault == [after |-> 0 - 1, at |-> 0]

\* __write_row stopped by an exception of open() or of the write at the k-th
\* path: the paths before it have the row
WriteRowBefore(files, row, k) ==
    [f \in DOMAIN files |->
        IF \E i \in 1..(k - 1) : file_log_paths[i] = f
        THEN Append(files[f], row) ELSE files[f]]

\* whether the row now written is the one a file fails at: env.fault names
\* the number of rows written before it and the path that fails
FaultNow(env) ==
    /\ env.fault # NoFault
    /\ Len(env.files[file_log_paths[1]]) = env.fault.after

\* the failure of a file caught and passed over in __write_row
LogSwallowsError(env, row) ==
    IF FaultNow(env)
    THEN [env EXCEPT !.files = WriteRowBefore(@, row, env.fault.at)]
    ELSE [env EXCEPT !.files = WriteRow(@, row)]

\* a row handed to __write_row, which has no try/except: an OSError of a
\* file leaves it, and the log function that called it
Log(env, row) ==
    IF FaultNow(env)
    THEN [env EXCEPT !.files = WriteRowBefore(@, row, env.fault.at),
                     !.exc = "OSError"]
    ELSE [env EXCEPT !.files = WriteRow(@, row)]

\* log_value_change with compare_for_changes ignored
LogValueChangeAlwaysCompares(env, title, name, value_before, value_after, note, compare) ==
    Log(env, <<title, name, "ok", CsvText(value_before), CsvText(value_after),
               CsvBool(value_before # value_after), CsvNote(note)>>)

\* LogfileLogger.log_value_change
LogValueChange(env, title, name, value_before, value_after, note, compare) ==
    Log(env, <<title, name, "ok", CsvText(value_before), CsvText(value_after),
               IF compare THEN CsvBool(value_before # value_after) ELSE "",
               CsvNote(note)>>)

\* LogfileLogger.log_param_rename
LogParamRename(env, title, old_name, new_name) ==
    Log(env, <<title, old_name, "ok", <<>>, <<>>, "",
               "param RENAMED to: " \o new_name>>)

\* LogfileLogger.log_param_removal
LogParamRemoval(env, title, name, old_value) ==
    Log(env, <<title, name, "ok", CsvText(old_value), <<>>, "",
               "param REMOVED">>)

\* log_error with the status cell of the other log functions
LogErrorStatusOk(env, title, name, error_text, value_before, value_after) ==
    Log(env, <<title, name, "ok", CsvText(value_before),
               CsvText(value_after), CsvBool(value_before # value_after)>>)

\* LogfileLogger.log_error: the row it writes has six cells
LogError(env, title, name, error_text, value_before, value_after) ==
    Log(env, <<title, name, error_text, CsvText(value_before),
               CsvText(value_after), CsvBool(value_before # value_after)>>)

\* logfile_logger.log_note(...): LogfileLogger defines no log_note
LogNote(env, title, name, note) == Raise(env, "AttributeError")

\* logfile_logger.log_param_move(...): LogfileLogger defines no log_param_move
LogParamMove(env, title, name, before, after) == Raise(env, "AttributeError")

(***************************************************************************)
(* The editor functions of update_template.  env is the state they act on: *)
(* [params: the template, files: the log files, exc: the exception that    *)
(* is propagating, NoExc when none is, fault: the write that fails].       *)
(***************************************************************************)
\* the state a statement sequence ends in.  The sequences below are written
\* Result({IF e1.exc # NoExc THEN e1 ELSE <rest, run in e1> : e1 \in {<first>}}):
\* the rest runs in the state the first statement leaves, unless that raised
Result(S) == CHOOSE e \in S : TRUE

\* a missing param without a default answered with None instead of a raise
GetParamValueNoRaise(params, name, default) ==
    IF ~TemplateHas(params, name)
    THEN [exc |-> NoExc, value |-> default]
    ELSE [exc |-> NoExc, value |-> Strip(TemplateGet(params, name))]

\* get_param_value_from_template(param_name, default_value)
GetParamValueFromTemplate(params, name, default) ==
    IF ~TemplateHas(params, name)
    THEN IF default = NoneText
         THEN [exc |-> "Exception", value |-> NoneText]
         ELSE [exc |-> NoExc, value |-> default]
    ELSE [exc |-> NoExc, value |-> Strip(TemplateGet(params, name))]

\* remove_param without the check that the param exists
RemoveParamUnchecked(env, title, dry, name) ==
    LogParamRemoval(
        IF ~dry THEN [env EXCEPT !.params = TemplateRemove(@, name)] ELSE env,
        title, name,
        GetParamValueFromTemplate(env.params, name, NoneText).value)

\* remove_param(param_name)
RemoveParam(env, title, dry, name) ==
    IF ~TemplateHas(env.params, name) THEN Raise(env, "Exception")
    ELSE LogParamRemoval(
            IF ~dry THEN [env EXCEPT !.params = TemplateRemove(@, name)] ELSE env,
            title, name,
            GetParamValueFromTemplate(env.params, name, NoneText).value)

\* the comparison off by one: the last but one param taken for the last
IsLastParamOffByOne(params, idx) == idx >= Len(params) - 1

\* after_param_index == len(template.params) - 1
IsLastParam(params, idx) == idx = Len(params)

\* set_param_value, lines 215-228: the index of `after` is looked up and the
\* param added behind it
AddAfter(env, dry, name, value, after) ==
    LET matches == IndexMatches(env.params, after)
        idx == SetMin(matches)
    IN IF matches = {} THEN Raise(env, "IndexError")
       ELSE IF dry THEN env
       ELSE IF IsLastParam(env.params, idx)
       THEN [env EXCEPT !.params = TemplateAdd(@, name, value, None)]
       ELSE [env EXCEPT !.params =
                TemplateAdd(@, name, value, env.params[idx + 1].name)]

\* set_param_value, lines 206-228: the branch taken when `after` is given
SetAfter(env, title, dry, name, value, after, param_exists) ==
    IF ~TemplateHas(env.params, after) THEN Raise(env, "Exception")
    ELSE Result({IF e1.exc # NoExc THEN e1
                 ELSE AddAfter(e1, dry, name, value, after) :
                 e1 \in {IF param_exists
                         THEN RemoveParam(env, title, dry, name) ELSE env}})

\* the parameter taken out and added anew, which moves it to the end
SetPlainReappends(env, dry, name, value, before) ==
    IF dry THEN env
    ELSE [env EXCEPT !.params =
            TemplateAdd(TemplateRemove(@, name), name, value, None)]

\* template.add called without the dry_run check
SetPlainIgnoringDryRun(env, dry, name, value, before) ==
    [env EXCEPT !.params = TemplateAdd(@, name, value, None)]

\* set_param_value, lines 229-231: no `after`; `before` does not reach
\* template.add, which gets param_name, value, *args and **kwargs only
SetPlain(env, dry, name, value, before) ==
    IF dry THEN env
    ELSE [env EXCEPT !.params = TemplateAdd(@, name, value, None)]

\* set_param_value(param_name, value, before, after)
SetParamValue(env, title, dry, name, value, before, after) ==
    LET param_exists == TemplateHas(env.params, name)
        previous_value ==
            IF param_exists
            THEN GetParamValueFromTemplate(env.params, name, NoneText).value
            ELSE NoneText
    IN Result({IF e1.exc # NoExc THEN e1
               ELSE LogValueChange(e1, title, name, previous_value, value,
                        IF ~param_exists THEN "param CREATED" ELSE None,
                        param_exists) :
               e1 \in {IF after # None
                       THEN SetAfter(env, title, dry, name, value, after,
                                     param_exists)
                       ELSE SetPlain(env, dry, name, value, before)}})

\* rename_param, lines 285-290: the edits, made when not dry_run
RenameEdits(env, title, dry, name, new_name, value) ==
    IF dry THEN env
    ELSE Result({IF e1.exc # NoExc THEN e1
                 ELSE RemoveParam(e1, title, dry, name) :
                 e1 \in {SetParamValue(env, title, dry, new_name, value, name,
                                       None)}})

\* rename_param(param_name, param_new_name)
RenameParam(env, title, dry, name, new_name) ==
    IF ~TemplateHas(env.params, name) THEN Raise(env, "Exception")
    ELSE Result({IF e2.exc # NoExc THEN e2
                 ELSE LogParamRename(e2, title, name, new_name) :
                 e2 \in {RenameEdits(env, title, dry, name, new_name,
                            GetParamValueFromTemplate(env.params, name,
                                                      NoneText).value)}})

\* move_param, lines 325-333: the `before` branch
MoveBefore(env, title, dry, name, before) ==
    IF ~TemplateHas(env.params, before) THEN Raise(env, "Exception")
    ELSE LET param_value ==
                GetParamValueFromTemplate(env.params, name, NoneText).value
             \* set_param_value(...), then log_param_move(...)
             SetAndLog(e1) ==
                Result({IF e2.exc # NoExc THEN e2
                        ELSE LogParamMove(e2, title, name, before, None) :
                        e2 \in {SetParamValue(e1, title, dry, name, param_value,
                                              before, None)}})
         IN Result({IF e1.exc # NoExc THEN e1 ELSE SetAndLog(e1) :
                    e1 \in {RemoveParam(env, title, dry, name)}})

\* move_param, lines 341-352: the index of `after` is looked up and the param
\* set behind it
MoveReinsert(env, title, dry, name, param_value, after) ==
    LET matches == IndexMatches(env.params, after)
        idx == SetMin(matches)
    IN IF matches = {} THEN Raise(env, "IndexError")
       ELSE IF IsLastParam(env.params, idx)
       THEN SetParamValue(env, title, dry, name, param_value, None, None)
       ELSE SetParamValue(env, title, dry, name, param_value,
                          env.params[idx + 1].name, None)

\* move_param, lines 334-356: the `after` branch
MoveAfter(env, title, dry, name, before, after) ==
    IF ~TemplateHas(env.params, after) THEN Raise(env, "Exception")
    ELSE LET param_value ==
                GetParamValueFromTemplate(env.params, name, NoneText).value
             \* the second set_param_value(...), then log_param_move(...)
             SetAndLog(e2) ==
                Result({IF e3.exc # NoExc THEN e3
                        ELSE LogParamMove(e3, title, name, None, after) :
                        e3 \in {SetParamValue(e2, title, dry, name, param_value,
                                              before, None)}})
             \* the reinsertion behind `after`, then the rest
             Reinsert(e1) ==
                Result({IF e2.exc # NoExc THEN e2 ELSE SetAndLog(e2) :
                        e2 \in {MoveReinsert(e1, title, dry, name, param_value,
                                             after)}})
         IN Result({IF e1.exc # NoExc THEN e1 ELSE Reinsert(e1) :
                    e1 \in {RemoveParam(env, title, dry, name)}})

\* move_param without the check that `before` and `after` are not both given
MoveParamBothAllowed(env, title, dry, name, before, after) ==
    IF before = None /\ after = None THEN Raise(env, "Exception")
    ELSE IF ~TemplateHas(env.params, name) THEN Raise(env, "Exception")
    ELSE IF before # None THEN MoveBefore(env, title, dry, name, before)
    ELSE MoveAfter(env, title, dry, name, before, after)

\* move_param(param_name, before, after)
MoveParam(env, title, dry, name, before, after) ==
    IF before = None /\ after = None THEN Raise(env, "Exception")
    ELSE IF before # None /\ after # None THEN Raise(env, "Exception")
    ELSE IF ~TemplateHas(env.params, name) THEN Raise(env, "Exception")
    ELSE IF before # None THEN MoveBefore(env, title, dry, name, before)
    ELSE MoveAfter(env, title, dry, name, before, after)

(***************************************************************************)
(* The rule of this run: split the `crew` parameter.                       *)
(***************************************************************************)
crew_param_name == "crew"

suggested_crew_param_name == "suggested_crew"

\* update_template, lines 395-406: both counts were found in the value
WriteCrew(env, title, dry, crew_current, crew_suggested) ==
    IF ~IntParses(crew_suggested) THEN Raise(env, "ValueError")
    ELSE Result({IF e1.exc # NoExc THEN e1
                 ELSE SetParamValue(e1, title, dry, suggested_crew_param_name,
                                    StrOfInt(IntOf(crew_suggested)), None,
                                    crew_param_name) :
                 e1 \in {SetParamValue(env, title, dry, crew_param_name,
                                       StrOfInt(IntOf(crew_current)), None,
                                       None)}})

\* update_template, lines 388-406: crew is present, the marker is not
SplitCrew(env, title, dry) ==
    LET param_value_str ==
            GetParamValueFromTemplate(env.params, crew_param_name, NoneText).value
    IN IF SearchDigits(param_value_str) = NoneText
       THEN LogError(env, title, crew_param_name,
                     "failed to extract the current crew count",
                     param_value_str, <<>>)
       ELSE IF SearchSuggested(param_value_str) = NoneText
       THEN LogError(env, title, crew_param_name,
                     "failed to extract the suggested crew count",
                     param_value_str, <<>>)
       ELSE WriteCrew(env, title, dry, SearchDigits(param_value_str),
                      SearchSuggested(param_value_str))

\* update_template without the namespace check
UpdateTemplateAnyNamespace(env, page, dry) ==
    IF TemplateHas(env.params, suggested_crew_param_name)
    THEN LogNote(env, page.title, crew_param_name, "already processed")
    ELSE IF ~TemplateHas(env.params, crew_param_name)
    THEN LogError(env, page.title, crew_param_name, "param is not present",
                  <<>>, <<>>)
    ELSE SplitCrew(env, page.title, dry)

\* TemplateModifier.update_template(template)
UpdateTemplate(env, page, dry) ==
    IF page.namespace # 0 THEN env
    ELSE IF TemplateHas(env.params, suggested_crew_param_name)
    THEN LogNote(env, page.title, crew_param_name, "already processed")
    ELSE IF ~TemplateHas(env.params, crew_param_name)
    THEN LogError(env, page.title, crew_param_name, "param is not present",
                  <<>>, <<>>)
    ELSE SplitCrew(env, page.title, dry)

(***************************************************************************)
(* The pages, the templates and the arguments the model draws from.        *)
(***************************************************************************)
ParamNames == {"crew", "suggested_crew", "armor", "speed"}

\* "12 (Suggested: 8)"
CrewBoth == <<"1", "2", " ", "(">> \o SuggestedLiteral \o <<"8", ")">>

\* " 07 (Suggested: +3)\n"
CrewPadded == <<" ", "0", "7", " ", "(">> \o SuggestedLiteral \o <<"+", "3", ")", "\n">>

\* "4 (Suggested: -1)"
CrewNegative == <<"4", " ", "(">> \o SuggestedLiteral \o <<"-", "1", ")">>

\* "2 (Suggested: 1.5)"
CrewDecimal == <<"2", " ", "(">> \o SuggestedLiteral \o <<"1", ".", "5", ")">>

\* "5"
CrewPlain == <<"5">>

\* "n/a"
CrewNoNumber == <<"n", "/", "a">>

CrewValues ==
    {CrewBoth, CrewPadded, CrewNegative, CrewDecimal, CrewPlain, CrewNoNumber}

\* the values a page's template may hold for a parameter
PageValues(name) ==
    IF name = "crew" THEN CrewValues
    ELSE IF name = "armor" THEN {<<"3">>, <<" ", "3", "\n">>}
    ELSE IF name = "speed" THEN {<<"6">>}
    ELSE {<<"8">>}

\* the values handed to set_param_value
NewValues == {<<"3">>, <<"6">>, <<" ", "6">>}

Entries == {[name |-> n, value |-> v] : n \in ParamNames, v \in CrewValues \cup
                                           {<<"3">>, <<" ", "3", "\n">>, <<"6">>, <<"8">>}}

\* the templates of the pages: at most MaxParams parameters, no name twice
Templates ==
    UNION {{t \in [1..n -> {e \in Entries : e.value \in PageValues(e.name)}] :
                \A i, j \in 1..n : t[i].name = t[j].name => i = j} :
           n \in 0..MaxParams}

\* the main namespace is 0
Pages == {[title |-> "Falcon", namespace |-> 0],
          [title |-> "User:Falcon", namespace |-> 2]}

NameOrNone == ParamNames \cup {None}

NoCall == [op |-> "none", name |-> None, value |-> NoneText,
           new_name |-> None, before |-> None, after |-> None]

Call(op, name, value, new_name, before, after) ==
    [op |-> op, name |-> name, value |-> value, new_name |-> new_name,
     before |-> before, after |-> after]

(***************************************************************************)
(* CsvDataLoader (input_data_loaders.py).  A loader is a record: the input *)
(* file it reads (file_exists, file_rows), the attributes an attribute     *)
(* lookup on it finds (attrs), the value of its __has_loaded_data          *)
(* (has_loaded_data) and of its data (data, when "data" is in attrs); the  *)
(* last call made on it (op, skip_header_row), the exception that call     *)
(* raised (exc) and what it returned (result); the number of calls made;   *)
(* whether a load() had returned before the last call and has by now.      *)
(* A row of the file is the list of its cells.                             *)
(***************************************************************************)
\* CsvDataLoader(input_filepath): __init__ sets input_filepath; the classes
\* give the object BaseInputDataLoader's __assertFileExists and
\* CsvDataLoader's __has_loaded_data = False, each under the name of the
\* class that defines it; `data` is declared and not set
CsvDataLoader(file_exists, file_rows) ==
    [file_exists |-> file_exists, file_rows |-> file_rows,
     attrs |-> {"input_filepath", "_BaseInputDataLoader__assertFileExists",
                "_CsvDataLoader__has_loaded_data"},
     has_loaded_data |-> FALSE, data |-> <<>>,
     op |-> "none", skip_header_row |-> FALSE, exc |-> NoExc, result |-> <<>>,
     calls |-> 0, completed_before |-> FALSE, completed |-> FALSE]

\* the rows csv.reader yields, after next(reader, None) when skip_header_row
RowsRead(file_rows, skip_header_row) ==
    IF skip_header_row /\ file_rows # <<>> THEN Tail(file_rows) ELSE file_rows

\* CsvDataLoader.load(transformers=[], skip_header_row): self.__name inside
\* class CsvDataLoader is looked up as _CsvDataLoader__name
LoaderLoad(l, skip_header_row) ==
    IF l.has_loaded_data THEN [l EXCEPT !.exc = "Exception"]
    ELSE IF "_CsvDataLoader__assertFileExists" \notin l.attrs
    THEN [l EXCEPT !.exc = "AttributeError"]
    ELSE IF ~l.file_exists THEN [l EXCEPT !.exc = "Exception"]
    ELSE IF "input_filename" \notin l.attrs
    THEN [l EXCEPT !.exc = "AttributeError"]
    ELSE [l EXCEPT !.data = RowsRead(l.file_rows, skip_header_row),
                   !.attrs = @ \cup {"data"},
                   !.exc = "NameError"]

\* CsvDataLoader.extract_page_list(), extractor_function = lambda row: row[0]
LoaderExtractPageList(l) ==
    IF l.has_loaded_data THEN [l EXCEPT !.exc = "Exception"]
    ELSE IF "data" \notin l.attrs THEN [l EXCEPT !.exc = "AttributeError"]
    ELSE [l EXCEPT !.result = [i \in 1..Len(l.data) |-> l.data[i][1]],
                   !.exc = NoExc]

(***************************************************************************)
(* State.                                                                  *)
(***************************************************************************)
VARIABLES
    dry_run,        \* the dry_run setting of the script
    current_page,   \* self.current_page: [title, namespace]
    template,       \* the parameters of the template handed to update_template
    logfiles,       \* the rows of each log file
    exc,            \* the exception that left the handler, NoExc when none did
    call,           \* the invocation made on this template, NoCall before it
    pre_template,   \* the template when the invocation started
    pre_rows,       \* the number of rows of a log file when it started
    phase,          \* where the script stands: "settings", "setup",
                    \* "iterating", "page", "applied", "done" or "aborted"
    use_input_data, \* the use_input_data setting
    source_pages_from_input_data,   \* the setting of that name
    pages_processed,\* the pages the runner has handed to update_template
    sink_fault,     \* the write to a log file that fails in this run, NoFault
                    \* when none does
    loader          \* input_data_loader and the input file it reads, with the
                    \* last call made on it

vars == <<dry_run, current_page, template, logfiles, exc, call, pre_template,
          pre_rows, phase, use_input_data, source_pages_from_input_data,
          pages_processed, sink_fault, loader>>

\* the state the functions act on
Env == [params |-> template, files |-> logfiles, exc |-> NoExc,
        fault |-> sink_fault]

\* the invocation c, made in state env
Invoke(env, page, dry, c) ==
    CASE c.op = "set" ->
            SetParamValue(env, page.title, dry, c.name, c.value, c.before, c.after)
      [] c.op = "remove" -> RemoveParam(env, page.title, dry, c.name)
      [] c.op = "rename" -> RenameParam(env, page.title, dry, c.name, c.new_name)
      [] c.op = "move" ->
            MoveParam(env, page.title, dry, c.name, c.before, c.after)
      [] c.op = "rule" -> UpdateTemplate(env, page, dry)

\* lines 107-110 and 416-422: the logger is constructed, the run hands a page's
\* template to update_template.  update_template is invoked once per template:
\* with the rule of the script as its body (ApplyRule), or, the rule being
\* what a run replaces, with a call of one of the editor functions (Call...)
Init ==
    /\ dry_run \in BOOLEAN
    /\ current_page \in Pages
    /\ template \in Templates
    /\ logfiles = NewLogfileLogger
    /\ exc = NoExc
    /\ call = NoCall
    /\ pre_template = template
    /\ pre_rows = 1
    /\ phase = "page"
    /\ use_input_data = FALSE
    /\ source_pages_from_input_data = FALSE
    /\ pages_processed = 0
    /\ sink_fault = NoFault
    /\ loader = CsvDataLoader(FALSE, <<>>)

Step(c) ==
    \E env \in {Invoke(Env, current_page, dry_run, c)} :
       /\ template' = env.params
       /\ logfiles' = env.files
       /\ exc' = env.exc
       /\ call' = c
       /\ pre_template' = template
       /\ pre_rows' = Len(logfiles["logfile.csv"])
       /\ UNCHANGED <<dry_run, current_page, phase, use_input_data,
                      source_pages_from_input_data, pages_processed,
                      sink_fault, loader>>

\* update_template runs the rule of the script on the template
ApplyRule ==
    /\ call = NoCall
    /\ Step(Call("rule", None, NoneText, None, None, None))

\* the rule body calls set_param_value
CallSetParamValue ==
    /\ call = NoCall
    /\ current_page.namespace = 0
    /\ \E n \in ParamNames, v \in NewValues, b, a \in NameOrNone :
            Step(Call("set", n, v, None, b, a))

\* the rule body calls remove_param
CallRemoveParam ==
    /\ call = NoCall
    /\ current_page.namespace = 0
    /\ \E n \in ParamNames : Step(Call("remove", n, NoneText, None, None, None))

\* the rule body calls rename_param
CallRenameParam ==
    /\ call = NoCall
    /\ current_page.namespace = 0
    /\ \E n, m \in ParamNames : Step(Call("rename", n, NoneText, m, None, None))

\* the rule body calls move_param
CallMoveParam ==
    /\ call = NoCall
    /\ current_page.namespace = 0
    /\ \E n \in ParamNames, b, a \in NameOrNone :
            Step(Call("move", n, NoneText, None, b, a))

Next ==
    \/ ApplyRule
    \/ CallSetParamValue
    \/ CallRemoveParam
    \/ CallRenameParam
    \/ CallMoveParam

Spec == Init /\ [][Next]_vars

(***************************************************************************)
(* The run of the script, from its settings to the end of TemplateModifier *)
(* (...).run().  The runner hands update_template the template of one page *)
(* after the other; a page is taken to hold one instance of the template.  *)
(***************************************************************************)
\* self.current_page before the runner has set it
NoPage == [title |-> None, namespace |-> 0]

\* a row a previous run left in logfile.csv
StaleRow == <<"Falcon", "crew", "ok", <<"5">>, <<"5">>, "False", "">>

\* the log files as a run may find them: the file of this run's timestamp is
\* new, logfile.csv may hold the rows of the run before
PriorLogfiles ==
    {[f \in LogPaths |-> <<>>],
     [f \in LogPaths |->
        IF f = "logfile.csv" THEN <<HeaderRow, StaleRow>> ELSE <<>>]}

\* the settings accepted although they contradict each other
SettingsErrorUnchecked(use, source) == IF use THEN "AttributeError" ELSE NoExc

\* lines 58-89, the exception the settings end in: with use_input_data the
\* transformers handed to input_data_loader.load() are constructed first, and
\* CsvTransformer.__init__ appends to self.columns, an attribute that is
\* declared and never set (input_data_loaders.py:31, 52-55); the page list
\* is not sourced from input data that is not used
SettingsError(use, source) ==
    IF use THEN "AttributeError"
    ELSE IF source THEN "Exception"
    ELSE NoExc

\* the writes to a log file that may fail in a run: the row written after
\* `after` rows, at the path of index `at`
SinkFaults ==
    {NoFault} \cup [after : 0..(2 * MaxPages), at : 1..Len(file_log_paths)]

RunInit ==
    /\ dry_run \in BOOLEAN
    /\ use_input_data \in BOOLEAN
    /\ source_pages_from_input_data \in BOOLEAN
    /\ logfiles \in PriorLogfiles
    /\ current_page = NoPage
    /\ template = <<>>
    /\ exc = NoExc
    /\ call = NoCall
    /\ pre_template = <<>>
    /\ pre_rows = 0
    /\ phase = "settings"
    /\ pages_processed = 0
    /\ sink_fault \in SinkFaults
    /\ loader = CsvDataLoader(FALSE, <<>>)

\* lines 38-89: the settings are read
LoadSettings ==
    /\ phase = "settings"
    /\ exc' = SettingsError(use_input_data, source_pages_from_input_data)
    /\ phase' = IF exc' = NoExc THEN "setup" ELSE "aborted"
    /\ UNCHANGED <<dry_run, current_page, template, logfiles, call,
                   pre_template, pre_rows, use_input_data,
                   source_pages_from_input_data, pages_processed,
                   sink_fault, loader>>

\* lines 92-135: the logger is constructed: every file emptied, then the
\* header row written; an exception of that write ends the script
SetUp ==
    /\ phase = "setup"
    /\ \E env \in {Log([params |-> template,
                         files |-> [f \in LogPaths |-> <<>>],
                         exc |-> NoExc, fault |-> sink_fault], HeaderRow)} :
            /\ logfiles' = env.files
            /\ exc' = env.exc
            /\ phase' = IF env.exc = NoExc THEN "iterating" ELSE "aborted"
    /\ UNCHANGED <<dry_run, current_page, template, call, pre_template,
                   pre_rows, use_input_data, source_pages_from_input_data,
                   pages_processed, sink_fault, loader>>

\* run(): the page iterator supplies the next page
LoadPage ==
    /\ phase = "iterating"
    /\ pages_processed < MaxPages
    /\ \E p \in Pages, t \in Templates :
            /\ current_page' = p
            /\ template' = t
            /\ pre_template' = t
    /\ call' = NoCall
    /\ pre_rows' = Len(logfiles["logfile.csv"])
    /\ phase' = "page"
    /\ UNCHANGED <<dry_run, logfiles, exc, use_input_data,
                   source_pages_from_input_data, pages_processed,
                   sink_fault, loader>>

\* run(): update_template is called on the template of the page; an
\* exception it raises is caught nowhere in the script and ends run()
RunUpdateTemplate ==
    /\ phase = "page"
    /\ \E env \in {UpdateTemplate(Env, current_page, dry_run)} :
            /\ template' = env.params
            /\ logfiles' = env.files
            /\ exc' = env.exc
            /\ phase' = IF env.exc = NoExc THEN "applied" ELSE "aborted"
    /\ call' = Call("rule", None, NoneText, None, None, None)
    /\ pages_processed' = pages_processed + 1
    /\ UNCHANGED <<dry_run, current_page, pre_template, pre_rows,
                   use_input_data, source_pages_from_input_data,
                   sink_fault, loader>>

\* run(): the runner saves the page and lets go of its template
CommitPage ==
    /\ phase = "applied"
    /\ template' = <<>>
    /\ pre_template' = <<>>
    /\ call' = NoCall
    /\ pre_rows' = Len(logfiles["logfile.csv"])
    /\ phase' = "iterating"
    /\ UNCHANGED <<dry_run, current_page, logfiles, exc, use_input_data,
                   source_pages_from_input_data, pages_processed,
                   sink_fault, loader>>

\* run(): the page iterator is exhausted
Finish ==
    /\ phase = "iterating"
    /\ phase' = "done"
    /\ UNCHANGED <<dry_run, current_page, template, logfiles, exc, call,
                   pre_template, pre_rows, use_input_data,
                   source_pages_from_input_data, pages_processed,
                   sink_fault, loader>>

RunNext ==
    \/ LoadSettings
    \/ SetUp
    \/ LoadPage
    \/ RunUpdateTemplate
    \/ CommitPage
    \/ Finish

RunSpec == RunInit /\ [][RunNext]_vars

(***************************************************************************)
(* A CsvDataLoader and the calls made on it.                               *)
(***************************************************************************)
\* the rows an input file may hold
FileRows == {<<"page title", "crew">>, <<"Falcon", "12">>, <<"Eagle", "7">>}

\* the input file: missing, or of at most MaxFileRows rows
InputFiles ==
    {[exists |-> FALSE, rows |-> <<>>]} \cup
    UNION {{[exists |-> TRUE, rows |-> r] : r \in [1..n -> FileRows]} :
           n \in 0..MaxFileRows}

\* line 64: input_data_loader = CsvDataLoader(input_filename)
LoaderInit ==
    /\ \E f \in InputFiles : loader = CsvDataLoader(f.exists, f.rows)
    /\ dry_run = FALSE
    /\ use_input_data = TRUE
    /\ source_pages_from_input_data = TRUE
    /\ logfiles = [f \in LogPaths |-> <<>>]
    /\ current_page = NoPage
    /\ template = <<>>
    /\ exc = NoExc
    /\ call = NoCall
    /\ pre_template = <<>>
    /\ pre_rows = 0
    /\ phase = "settings"
    /\ pages_processed = 0
    /\ sink_fault = NoFault

\* the call made on the loader, which ended as l: a load() counts as
\* completed when it returned
LoaderCalled(l, op, skip_header_row) ==
    /\ loader' = [l EXCEPT !.op = op,
                           !.skip_header_row = skip_header_row,
                           !.calls = @ + 1,
                           !.completed_before = loader.completed,
                           !.completed = loader.completed
                                         \/ (op = "load" /\ l.exc = NoExc)]
    /\ UNCHANGED <<dry_run, current_page, template, logfiles, exc, call,
                   pre_template, pre_rows, phase, use_input_data,
                   source_pages_from_input_data, pages_processed, sink_fault>>

\* input_data_loader.load(skip_header_row=...)
CallLoad ==
    /\ loader.calls < MaxLoaderCalls
    /\ \E skip_header_row \in BOOLEAN :
        \E l \in {LoaderLoad(loader, skip_header_row)} :
            LoaderCalled(l, "load", skip_header_row)

\* input_data_loader.extract_page_list()
CallExtractPageList ==
    /\ loader.calls < MaxLoaderCalls
    /\ \E l \in {LoaderExtractPageList(loader)} :
            LoaderCalled(l, "extract_page_list", FALSE)

LoaderNext ==
    \/ CallLoad
    \/ CallExtractPageList

LoaderSpec == LoaderInit /\ [][LoaderNext]_vars

(***************************************************************************)
(* Vocabulary of the properties.                                           *)
(***************************************************************************)
\* the rows the invocation appended to the log
NewRows ==
    SubSeq(logfiles["logfile.csv"], pre_rows + 1, Len(logfiles["logfile.csv"]))

\* a template as get_param_value_from_template shows it: values trimmed
Trimmed(t) == [i \in 1..Len(t) |-> [name |-> t[i].name, value |-> Strip(t[i].value)]]

Without(t, name) == LET Keep(e) == e.name # name IN SelectSeq(t, Keep)

IndexOf(t, name) == CHOOSE i \in 1..Len(t) : t[i].name = name

Entry(name, value) == [name |-> name, value |-> value]

\* the invocation ran in live mode on a template that has `name`
LiveCallOn(op, name) ==
    /\ call.op = op
    /\ ~dry_run
    /\ TemplateHas(pre_template, name)

\* C1: rename_param(old, new) in live mode, old present and new absent, leaves
\* new with old's value (as trimmed text) at the position old had, and every
\* other entry as it was.
C1_RenameKeepsPosition ==
    (LiveCallOn("rename", call.name) /\ ~TemplateHas(pre_template, call.new_name))
    => /\ Len(template) = Len(pre_template)
       /\ \A i \in 1..Len(pre_template) :
            IF pre_template[i].name = call.name
            THEN template[i] = Entry(call.new_name, Strip(pre_template[i].value))
            ELSE template[i] = pre_template[i]

\* C2: every call of set_param_value, remove_param, rename_param or
\* move_param, returning or raising, appends exactly one row to the log.
C2_OneRowPerCall ==
    call.op \in {"set", "remove", "rename", "move"} => Len(NewRows) = 1

\* the rows the same invocation appends from the same template in the other
\* mode
RowsInOtherMode ==
    Tail(Invoke([params |-> pre_template, files |-> NewLogfileLogger,
                 exc |-> NoExc, fault |-> NoFault],
                current_page, ~dry_run, call).files["logfile.csv"])

\* C3: an invocation appends the same rows in dry-run mode as in live mode.
C3_DryRunSameRows == call.op # "none" => NewRows = RowsInOtherMode

\* C4: in dry-run mode no editor call and no rule application changes the
\* template.
C4_DryRunLeavesTemplate ==
    (dry_run /\ call.op # "none") => template = pre_template

\* a dry run of the rule that logged both of its edits
C4_Witness ==
    /\ dry_run
    /\ call.op = "rule"
    /\ exc = NoExc
    /\ Len(NewRows) = 2
    /\ template = pre_template

\* the rule ran on a content page whose template has crew and no marker
RuleOnCrewPage ==
    /\ call.op = "rule"
    /\ current_page.namespace = 0
    /\ TemplateHas(pre_template, crew_param_name)
    /\ ~TemplateHas(pre_template, suggested_crew_param_name)

IntegerText(s) ==
    /\ s # <<>>
    /\ \A i \in 1..Len(s) : s[i] \in Digits \/ (i = 1 /\ s[i] \in {"+", "-"})
    /\ s[Len(s)] \in Digits

\* v reads "<N> (Suggested: <M>)" and N ends at position k
CrewFormAt(v, k) ==
    /\ k >= 1
    /\ Len(v) >= k + Len(SuggestedLiteral) + 4
    /\ \A i \in 1..k : v[i] \in Digits
    /\ SubSeq(v, k + 1, k + 2) = <<" ", "(">>
    /\ SubSeq(v, k + 3, k + 2 + Len(SuggestedLiteral)) = SuggestedLiteral
    /\ IntegerText(SubSeq(v, k + 3 + Len(SuggestedLiteral), Len(v) - 1))
    /\ v[Len(v)] = ")"

CrewForm(v) == \E k \in 1..Len(v) : CrewFormAt(v, k)

PreCrew == Strip(TemplateGet(pre_template, crew_param_name))

\* the template the crew rule is to leave: crew = N, suggested_crew = M
\* right behind it
CrewSplit(t, v) ==
    LET k == CHOOSE j \in 1..Len(v) : CrewFormAt(v, j)
        i == IndexOf(t, crew_param_name)
        n == StrOfInt(IntOf(SubSeq(v, 1, k)))
        m == StrOfInt(IntOf(SubSeq(v, k + 3 + Len(SuggestedLiteral), Len(v) - 1)))
    IN InsertAt([t EXCEPT ![i] = Entry(crew_param_name, n)], i + 1,
                Entry(suggested_crew_param_name, m))

C6_MarkerSkipsWithNote ==
    (call.op = "rule" /\ current_page.namespace = 0
        /\ TemplateHas(pre_template, suggested_crew_param_name))
    => /\ exc = NoExc
       /\ template = pre_template
       /\ Len(NewRows) = 1
       /\ NewRows[1][7] = "already processed"

\* C7: on a content page whose template has neither suggested_crew nor crew
\* the rule appends one row whose status is an error text, and changes
\* nothing.
C7_MissingCrewLogsError ==
    (call.op = "rule" /\ current_page.namespace = 0
        /\ ~TemplateHas(pre_template, suggested_crew_param_name)
        /\ ~TemplateHas(pre_template, crew_param_name))
    => /\ exc = NoExc
       /\ template = pre_template
       /\ Len(NewRows) = 1
       /\ NewRows[1][3] = "param is not present"
       /\ NewRows[1][3] # "ok"

\* a live run of the rule on a page that has armor and speed only
C7_Witness ==
    /\ call.op = "rule"
    /\ ~dry_run
    /\ current_page.namespace = 0
    /\ pre_template = <<Entry("armor", <<"3">>), Entry("speed", <<"6">>)>>
    /\ Len(NewRows) = 1
    /\ NewRows[1][2] = crew_param_name

\* C8: whatever the crew value, the rule never raises: it makes its two
\* edits, or logs one error row and leaves the template as it was.
C8_RuleNeverRaises ==
    RuleOnCrewPage
    => /\ exc = NoExc
       /\ \/ Len(NewRows) = 2
          \/ /\ Len(NewRows) = 1
             /\ NewRows[1][3] # "ok"
             /\ template = pre_template

\* the template with `name` taken out and put back at position p
MovedTo(t, name, p) ==
    InsertAt(Without(t, name), p, Entry(name, TemplateGet(t, name)))

\* move_param(name, before / after = pivot) ran in live mode, name and pivot
\* both present and distinct
LiveMove(pivot) ==
    /\ LiveCallOn("move", call.name)
    /\ pivot # None
    /\ pivot # call.name
    /\ TemplateHas(pre_template, pivot)

\* C9: move_param(name, before=pivot) in live mode leaves name right before
\* pivot, its value (as trimmed text) and the other entries unchanged.
C9_MoveBefore ==
    (LiveMove(call.before) /\ call.after = None)
    => Trimmed(template) =
            Trimmed(MovedTo(pre_template, call.name,
                            IndexOf(Without(pre_template, call.name), call.before)))

\* C10: move_param(name, after=pivot) in live mode leaves name right after
\* pivot, its value (as trimmed text) and the other entries unchanged,
\* wherever the pivot stands.
C10_MoveAfter ==
    (LiveMove(call.after) /\ call.before = None)
    => Trimmed(template) =
            Trimmed(MovedTo(pre_template, call.name,
                            IndexOf(Without(pre_template, call.name), call.after) + 1))

\* the last row the invocation appended
LastRow == NewRows[Len(NewRows)]

\* C11: the value-change row of a set_param_value call that returned has an
\* empty changed-flag and the note "param CREATED" when the parameter did not
\* exist; when it existed, the flag says whether the trimmed previous value
\* differs from the new value, and there is no note.
C11_ChangedFlag ==
    (call.op = "set" /\ exc = NoExc)
    => /\ Len(NewRows) >= 1
       /\ LastRow[2] = call.name
       /\ LastRow[3] = "ok"
       /\ LastRow[5] = call.value
       /\ IF TemplateHas(pre_template, call.name)
          THEN /\ LastRow[4] = Strip(TemplateGet(pre_template, call.name))
               /\ LastRow[6] =
                    (IF Strip(TemplateGet(pre_template, call.name)) = call.value
                     THEN "False" ELSE "True")
               /\ LastRow[7] = ""
          ELSE /\ LastRow[4] = <<>>
               /\ LastRow[6] = ""
               /\ LastRow[7] = "param CREATED"

\* "3" set over armor = " 3\n": logged as not changed
C11_Witness ==
    /\ call.op = "set"
    /\ exc = NoExc
    /\ call.name = "armor"
    /\ call.value = <<"3">>
    /\ TemplateHas(pre_template, "armor")
    /\ TemplateGet(pre_template, "armor") = <<" ", "3", "\n">>
    /\ LastRow[6] = "False"
    /\ LastRow[7] = ""

\* C12: once the logger is constructed, and after every row written, all log
\* files hold the same rows, the first of them the header row, which occurs
\* once in each file.
C12_SinksAgree ==
    \A f \in LogPaths :
        /\ \A g \in LogPaths : logfiles[f] = logfiles[g]
        /\ Len(logfiles[f]) >= 1
        /\ logfiles[f][1] = HeaderRow
        /\ \A i \in 2..Len(logfiles[f]) : logfiles[f][i] # HeaderRow

\* a live rename wrote its three rows to both files
C12_Witness ==
    /\ call.op = "rename"
    /\ Len(NewRows) = 3
    /\ \A f \in LogPaths : Len(logfiles[f]) = 4 /\ logfiles[f][4][3] = "ok"

\* the arguments of the move_param call are ones it is to refuse
MoveRefused ==
    \/ call.before = None /\ call.after = None
    \/ call.before # None /\ call.after # None
    \/ ~TemplateHas(pre_template, call.name)
    \/ call.before # None /\ ~TemplateHas(pre_template, call.before)
    \/ call.after # None /\ ~TemplateHas(pre_template, call.after)

\* C13: move_param raises and leaves the template as it was when neither or
\* both of before / after are given, when the parameter is absent or when the
\* pivot is absent, in dry-run mode as in live mode.
C13_MoveRefusals ==
    (call.op = "move" /\ MoveRefused)
    => /\ exc = "Exception"
       /\ template = pre_template
       /\ NewRows = <<>>

\* a dry run refused to move armor behind speed, which the page lacks
C13_Witness ==
    /\ call.op = "move"
    /\ dry_run
    /\ call.name = "armor"
    /\ call.before = None
    /\ call.after = "speed"
    /\ TemplateHas(pre_template, "armor")
    /\ ~TemplateHas(pre_template, "speed")
    /\ exc = "Exception"
    /\ template = pre_template

\* C14: on a page outside namespace 0 the rule returns without a row logged
\* and without a change to the template, whatever parameters it holds.
C14_OtherNamespacesSkipped ==
    (call.op = "rule" /\ current_page.namespace # 0)
    => /\ exc = NoExc
       /\ template = pre_template
       /\ NewRows = <<>>

\* a live run left crew = "12 (Suggested: 8)" of a user page alone
C14_Witness ==
    /\ call.op = "rule"
    /\ ~dry_run
    /\ current_page.namespace = 2
    /\ pre_template = <<Entry("crew", CrewBoth)>>
    /\ template = pre_template
    /\ Len(logfiles["logfile.csv"]) = 1

\* the page the rule ran on is a content page with an error the rule is to
\* recover from: the marker is present, crew is missing, or its value does
\* not read "<N> (Suggested: <M>)"; no log file failed
RecoverablePageError ==
    /\ call.op = "rule"
    /\ exc # "OSError"
    /\ current_page.namespace = 0
    /\ \/ TemplateHas(pre_template, suggested_crew_param_name)
       \/ ~TemplateHas(pre_template, crew_param_name)
       \/ ~CrewForm(PreCrew)

\* C15: a recoverable error of one page does not end the run: once the rule
\* has ended on such a page, the error is logged and the run goes on to the
\* next page.
C15_PageErrorsDoNotEndRun ==
    RecoverablePageError
    => /\ phase # "aborted"
       /\ exc = NoExc
       /\ Len(NewRows) >= 1

\* C16: no name occurs twice in the template: not in the template of a page,
\* and not after a call of set_param_value, remove_param, rename_param or
\* move_param on it, whatever the arguments.  (Every template with unique
\* names is a template the call may start from, so the calls of a sequence are
\* covered one by one.)
C16_NamesUnique ==
    \A i, j \in 1..Len(template) : template[i].name = template[j].name => i = j

\* a live rename of armor onto speed, which the page has: one entry left
C16_Witness ==
    /\ LiveCallOn("rename", "armor")
    /\ call.name = "armor"
    /\ call.new_name = "speed"
    /\ pre_template = <<Entry("armor", <<"3">>), Entry("speed", <<"6">>)>>
    /\ exc = NoExc
    /\ template = <<Entry("speed", <<"3">>)>>

RemovedAgain == RemoveParam(Env, current_page.title, dry_run, call.name)

\* C18: after remove_param(N) in live mode on a template that has N, the
\* template has N no longer, and a second remove_param(N) raises and leaves
\* the template as it is.
C18_RemoveThenRemove ==
    LiveCallOn("remove", call.name)
    => /\ exc = NoExc
       /\ ~TemplateHas(template, call.name)
       /\ RemovedAgain.exc = "Exception"
       /\ RemovedAgain.params = template
       /\ RemovedAgain.files = logfiles

\* armor removed from [crew, armor, speed]
C18_Witness ==
    /\ LiveCallOn("remove", "armor")
    /\ call.name = "armor"
    /\ pre_template = <<Entry("crew", CrewPlain), Entry("armor", <<"3">>),
                        Entry("speed", <<"6">>)>>
    /\ template = <<Entry("crew", CrewPlain), Entry("speed", <<"6">>)>>
    /\ RemovedAgain.exc = "Exception"

C20_ContradictorySettingsAbort ==
    (source_pages_from_input_data /\ ~use_input_data /\ phase # "settings")
    => /\ phase = "aborted"
       /\ exc = "Exception"
       /\ pages_processed = 0
       /\ current_page = NoPage
       /\ call = NoCall
       /\ template = <<>>
       /\ logfiles \in PriorLogfiles

\* the script stopped at the check of line 85, logfile.csv still holding the
\* rows of the run before
C20_Witness ==
    /\ source_pages_from_input_data
    /\ ~use_input_data
    /\ phase = "aborted"
    /\ exc = "Exception"
    /\ logfiles["logfile.csv"] = <<HeaderRow, StaleRow>>

\* C21: a write to a log file that fails ends the run: the exception is not
\* passed over, the row it failed at is the last row in any file, and the
\* run goes on to a page, or to its end, only with the same rows in every
\* file.
C21_SinkFailureHalts ==
    /\ exc = "OSError"
       => /\ phase = "aborted"
          /\ Len(logfiles[file_log_paths[1]]) =
                sink_fault.after + (IF sink_fault.at = 2 THEN 1 ELSE 0)
          /\ Len(logfiles[file_log_paths[2]]) = sink_fault.after
    /\ phase \in {"iterating", "page", "applied", "done"}
       => logfiles[file_log_paths[1]] = logfiles[file_log_paths[2]]

\* the second page's row reached logfile.csv and failed at the file of this
\* run: the run ended there
C21_Witness ==
    /\ exc = "OSError"
    /\ phase = "aborted"
    /\ sink_fault.at = 2
    /\ pages_processed = 2
    /\ Len(logfiles[file_log_paths[1]]) = Len(logfiles[file_log_paths[2]]) + 1

\* C22: every row a log function appends has the seven cells of the header
\* row: page title, parameter name, status, old value, new value, changed
\* flag, note.
C22_SevenColumns ==
    \A i \in 1..Len(NewRows) : Len(NewRows[i]) = Len(HeaderRow)

\* set_param_value ran in live mode with the one placement argument `pivot`,
\* on a template that has pivot and lacks the name
LivePlacedSet(pivot, other) ==
    /\ call.op = "set"
    /\ ~dry_run
    /\ pivot # None
    /\ other = None
    /\ TemplateHas(pre_template, pivot)
    /\ ~TemplateHas(pre_template, call.name)

\* C23: in live mode set_param_value(name, value, before=pivot), name absent
\* and pivot present, inserts name right before pivot, and with after=pivot
\* right after it; the other entries stay as they were.
C23_SetPlacement ==
    /\ LivePlacedSet(call.before, call.after)
       => template = InsertAt(pre_template, IndexOf(pre_template, call.before),
                              Entry(call.name, call.value))
    /\ LivePlacedSet(call.after, call.before)
       => template = InsertAt(pre_template, IndexOf(pre_template, call.after) + 1,
                              Entry(call.name, call.value))

\* move_param was called with the one placement argument `pivot`, the
\* parameter and the pivot both in the template
MoveAccepted(pivot, other) ==
    /\ call.op = "move"
    /\ pivot # None
    /\ other = None
    /\ pivot # call.name
    /\ TemplateHas(pre_template, call.name)
    /\ TemplateHas(pre_template, pivot)

\* C24: a move_param call with the parameter and the pivot present and one
\* of before / after given returns, and the last row it appends is the row of
\* the move: a row for the parameter with a note of its own, not the note of
\* a removal or of a value change.
C24_MoveLogged ==
    (MoveAccepted(call.before, call.after) \/ MoveAccepted(call.after, call.before))
    => /\ exc = NoExc
       /\ NewRows # <<>>
       /\ LastRow[2] = call.name
       /\ LastRow[7] \notin {"", "param CREATED", "param REMOVED"}

\* the template has both edits of the crew rule: crew holds the number read
\* from its old value, suggested_crew stands right behind crew, and the
\* other entries are as they were
BothCrewEdits ==
    /\ TemplateHas(pre_template, crew_param_name)
    /\ TemplateHas(template, crew_param_name)
    /\ TemplateHas(template, suggested_crew_param_name)
    /\ IndexOf(template, suggested_crew_param_name) =
            IndexOf(template, crew_param_name) + 1
    /\ SearchDigits(PreCrew) # NoneText
    /\ Without(template, suggested_crew_param_name) =
            [pre_template EXCEPT ![IndexOf(pre_template, crew_param_name)] =
                Entry(crew_param_name, StrOfInt(IntOf(SearchDigits(PreCrew))))]

\* C25: in live mode, once the rule has ended on a content page, by
\* returning or by raising, the template is as it was before or has both
\* edits; it never has one of the two only.
C25_AllOrNothing ==
    (call.op = "rule" /\ ~dry_run /\ current_page.namespace = 0)
    => \/ template = pre_template
       \/ BothCrewEdits

\* C26: load() on an input file that exists, no load() having returned
\* before, returns with the rows of the file as the loader's data; a load()
\* after one that returned raises; extract_page_list() raises when no load()
\* has returned, and otherwise returns the first cell of every row of the
\* data, in the order of the rows.
C26_LoadOnceProtocol ==
    /\ (loader.op = "load" /\ loader.file_exists /\ ~loader.completed_before)
       => /\ loader.exc = NoExc
          /\ loader.data = RowsRead(loader.file_rows, loader.skip_header_row)
    /\ (loader.op = "load" /\ loader.completed_before)
       => loader.exc = "Exception"
    /\ (loader.op = "extract_page_list" /\ ~loader.completed_before)
       => loader.exc # NoExc
    /\ (loader.op = "extract_page_list" /\ loader.completed_before)
       => /\ loader.exc = NoExc
          /\ loader.result = [i \in 1..Len(loader.data) |-> loader.data[i][1]]

=============================================================================
